---- MODULE Spec2Model ----
(***************************************************************************)
(* Taste-profile stack builder: the exposure store kept in localStorage    *)
(* (app/utils/tasteProfileStorage.js), the create-stack route              *)
(* (app/api/taste-profile/create-stack/route.js) and the page handlers     *)
(* that read the store, call the route and commit the result               *)
(* (app/taste-profile/page.js).                                            *)
(***************************************************************************)
EXTENDS Integers, Sequences, FiniteSets, TLC

VARIABLES
    seenEpisodes,      \* localStorage tasteProfile_seenEpisodes: the paths in the array
    referencedTracks,  \* localStorage tasteProfile_referencedTracks: the uids in the array
    stackHistory,      \* localStorage tasteProfile_stackHistory (array of stacks)
    now,               \* the clock read by Date.now()
    tabs,              \* per browser tab: the page's build in flight and its error
    del,               \* the deleteStack call in progress (SpecSteps)
    lastOp             \* the handler that ran last, with its arguments

vars == <<seenEpisodes, referencedTracks, stackHistory, now, tabs, del, lastOp>>
store == <<seenEpisodes, referencedTracks, stackHistory>>

----------------------------------------------------------------------------
\* Bounds of the model

MaxClock == 2          \* largest Date.now() value in Spec
MaxRows == 1           \* rows of the track form
MaxClockSeq == 3       \* largest Date.now() value in SpecSeq
MaxClockFull == 52     \* largest Date.now() value in SpecFull
MaxClockName == 1      \* largest Date.now() value in SpecName
MaxClockRoute == 2     \* largest Date.now() value in SpecRoute
MaxNameRows == 4       \* rows of the track form in SpecName
MaxNameGenres == 3     \* selected genres in SpecName

\* Program constants
HistoryCap == 50       \* history.slice(0, 50)
MaxPerSeed == 5        \* unseen.slice(0, 5)

Tabs == {"tab1", "tab2"}

----------------------------------------------------------------------------
\* Array helpers (JavaScript array methods)

Range(s) == {s[i] : i \in DOMAIN s}

Includes(s, x) == \E i \in DOMAIN s : s[i] = x

Min(a, b) == IF a < b THEN a ELSE b

Slice(s, n) == SubSeq(s, 1, Min(n, Len(s)))

RECURSIVE Flat(_)
Flat(ss) == IF ss = <<>> THEN <<>> ELSE Head(ss) \o Flat(Tail(ss))

\* String.prototype.trim over the strings of the model
Trim(s) == IF s = " " THEN "" ELSE s

----------------------------------------------------------------------------
\* The NTS catalogue the route queries (the environment)

EpisodePaths == {"e1", "e2", "e3"}
TrackUids == {"u1", "u2", "u3"}
GenreIds == {"g1"}

BlankRow == [artist |-> "", title |-> ""]
SpaceRow == [artist |-> " ", title |-> ""]
BonoboRow == [artist |-> "Bonobo", title |-> ""]
FormRows == {BlankRow, SpaceRow, BonoboRow}

\* data.results of /api/v2/search?q=...&types[]=track, in the API's order
NTSTrackResults(artist, title) ==
    IF artist = "Bonobo"
    THEN << [article |-> [path |-> "e1", title |-> "Ep1"], local_date |-> 2],
            [article |-> [path |-> "e2", title |-> "Ep2"], local_date |-> 3],
            [article |-> [path |-> "e3", title |-> "Ep3"], local_date |-> 1] >>
    ELSE <<>>

\* data.results of /api/v2/search/episodes?genres[]=..., in the API's order
NTSGenreResults(genreId) ==
    IF genreId = "g1"
    THEN << [article |-> [path |-> "e3"], title |-> "Ep3", local_date |-> 1],
            [article |-> [path |-> "e2"], title |-> "Ep2", local_date |-> 3] >>
    ELSE IF genreId = "g2"
    THEN << [article |-> [path |-> "e4"], title |-> "Ep4", local_date |-> 4],
            [article |-> [path |-> "e5"], title |-> "Ep5", local_date |-> 5],
            [article |-> [path |-> "e6"], title |-> "Ep6", local_date |-> 6],
            [article |-> [path |-> "e7"], title |-> "Ep7", local_date |-> 7],
            [article |-> [path |-> "e8"], title |-> "Ep8", local_date |-> 8],
            [article |-> [path |-> "e9"], title |-> "Ep9", local_date |-> 9] >>
    ELSE <<>>

\* data.results of /api/v2{episodePath}/tracklist
NTSTracklist(episodePath) ==
    CASE episodePath = "e1" -> << [uid |-> "u1"], [uid |-> "u2"] >>
      [] episodePath = "e2" -> << [uid |-> "u2"], [uid |-> "u3"] >>
      [] episodePath = "e3" -> << [uid |-> "u1"] >>
      [] OTHER -> <<>>

\* data.tracks.items[0].id of the Spotify search for a track, Null when the
\* search has no item
Null == "null"

SpotifyCatalogue(uid) ==
    CASE uid = "u1" -> "sp1"
      [] uid = "u2" -> "sp2"
      [] OTHER -> Null

\* The order in which the promises of one Promise.all settle
InOrder == [searches |-> "inOrder", tracklists |-> "inOrder", lookups |-> "inOrder"]

Completions ==
    [searches : {"inOrder", "reversed"}, tracklists : {"inOrder", "reversed"},
     lookups : {"inOrder", "reversed"}]

\* How the external calls of one request behave. Which fail: searches by seed
\* position, tracklist fetches by episode path, the Spotify token request,
\* the Spotify lookups by track uid (a response that is not ok, or a fetch
\* that throws). In which order the concurrent calls of each stage settle.
NoOutage == [search |-> {}, tracklist |-> {}, token |-> FALSE,
             spotifyNotOk |-> {}, spotifyThrows |-> {}, completion |-> InOrder]

Outages ==
    { NoOutage,
      [NoOutage EXCEPT !.search = {1}],
      [NoOutage EXCEPT !.tracklist = {"e2"}],
      [NoOutage EXCEPT !.token = TRUE],
      [NoOutage EXCEPT !.spotifyNotOk = {"u1"}],
      [NoOutage EXCEPT !.spotifyThrows = {"u3"}],
      [NoOutage EXCEPT !.completion =
            [searches |-> "reversed", tracklists |-> "reversed",
             lookups |-> "reversed"]] }

----------------------------------------------------------------------------
\* generateStackName (tasteProfileStorage.js), imported by the route

\* Mutant: the count of the other artists is not reduced by one
generateStackName_Count(sources) ==
    LET artistRows == SelectSeq(sources.tracks, LAMBDA track : track.artist # "")
        artistNames == [i \in DOMAIN artistRows |-> artistRows[i].artist]
        genreNames == sources.genres
    IN IF Len(artistNames) > 0 /\ Len(genreNames) > 0
       THEN (IF Len(artistNames) = 1 /\ Len(genreNames) = 1
             THEN artistNames[1] \o " + " \o genreNames[1]
             ELSE IF Len(artistNames) > 1 /\ Len(genreNames) = 1
             THEN artistNames[1] \o " & More + " \o genreNames[1]
             ELSE IF Len(artistNames) = 1 /\ Len(genreNames) > 1
             THEN artistNames[1] \o " + " \o genreNames[1] \o " Mix"
             ELSE artistNames[1] \o " + " \o genreNames[1] \o " & More")
       ELSE IF Len(artistNames) > 0
       THEN (IF Len(artistNames) = 1
             THEN artistNames[1] \o " Mix"
             ELSE IF Len(artistNames) = 2
             THEN artistNames[1] \o " + " \o artistNames[2]
             ELSE artistNames[1] \o " & " \o ToString(Len(artistNames)) \o " More")
       ELSE IF Len(genreNames) > 0
       THEN (IF Len(genreNames) = 1
             THEN genreNames[1] \o " Stack"
             ELSE IF Len(genreNames) = 2
             THEN genreNames[1] \o " + " \o genreNames[2]
             ELSE genreNames[1] \o " Mix")
       ELSE "Music Stack"

\* generateStackName: artistNames are the truthy track.artist values, in order
generateStackName(sources) ==
    LET artistRows == SelectSeq(sources.tracks, LAMBDA track : track.artist # "")
        artistNames == [i \in DOMAIN artistRows |-> artistRows[i].artist]
        genreNames == sources.genres
    IN IF Len(artistNames) > 0 /\ Len(genreNames) > 0
       THEN (IF Len(artistNames) = 1 /\ Len(genreNames) = 1
             THEN artistNames[1] \o " + " \o genreNames[1]
             ELSE IF Len(artistNames) > 1 /\ Len(genreNames) = 1
             THEN artistNames[1] \o " & More + " \o genreNames[1]
             ELSE IF Len(artistNames) = 1 /\ Len(genreNames) > 1
             THEN artistNames[1] \o " + " \o genreNames[1] \o " Mix"
             ELSE artistNames[1] \o " + " \o genreNames[1] \o " & More")
       ELSE IF Len(artistNames) > 0
       THEN (IF Len(artistNames) = 1
             THEN artistNames[1] \o " Mix"
             ELSE IF Len(artistNames) = 2
             THEN artistNames[1] \o " + " \o artistNames[2]
             ELSE artistNames[1] \o " & " \o ToString(Len(artistNames) - 1) \o " More")
       ELSE IF Len(genreNames) > 0
       THEN (IF Len(genreNames) = 1
             THEN genreNames[1] \o " Stack"
             ELSE IF Len(genreNames) = 2
             THEN genreNames[1] \o " + " \o genreNames[2]
             ELSE genreNames[1] \o " Mix")
       ELSE "Music Stack"

----------------------------------------------------------------------------
\* create-stack route

\* results.sort((a, b) => new Date(b.local_date) - new Date(a.local_date)):
\* a stable sort, newest first
RECURSIVE InsertByDate(_, _)
InsertByDate(sorted, r) ==
    IF sorted = <<>> THEN <<r>>
    ELSE IF Head(sorted).local_date >= r.local_date
         THEN <<Head(sorted)>> \o InsertByDate(Tail(sorted), r)
         ELSE <<r>> \o sorted

RECURSIVE SortByDateDesc(_)
SortByDateDesc(results) ==
    IF results = <<>> THEN <<>>
    ELSE InsertByDate(SortByDateDesc(SubSeq(results, 1, Len(results) - 1)),
                      results[Len(results)])

\* fetchEpisodesForTrack, when the search responds ok
fetchEpisodesForTrack(artist, title, seen) ==
    LET results == SortByDateDesc(NTSTrackResults(artist, title))
        unseen == SelectSeq(results, LAMBDA r : r.article.path \notin seen)
        first == Slice(unseen, MaxPerSeed)
    IN [i \in DOMAIN first |->
            [ path |-> first[i].article.path,
              title |-> first[i].article.title,
              airDate |-> first[i].local_date,
              source |-> [type |-> "track", artist |-> artist, title |-> title] ]]

\* Mutant: the seen episodes are not filtered out of a genre's results
fetchEpisodesForGenre_SeenKept(genreId, seen) ==
    LET first == Slice(NTSGenreResults(genreId), MaxPerSeed)
    IN [i \in DOMAIN first |->
            [ path |-> first[i].article.path,
              title |-> first[i].title,
              airDate |-> first[i].local_date,
              source |-> [type |-> "genre", genreId |-> genreId] ]]

\* fetchEpisodesForGenre, when the search responds ok
fetchEpisodesForGenre(genreId, seen) ==
    LET results == NTSGenreResults(genreId)
        unseen == SelectSeq(results, LAMBDA r : r.article.path \notin seen)
        first == Slice(unseen, MaxPerSeed)
    IN [i \in DOMAIN first |->
            [ path |-> first[i].article.path,
              title |-> first[i].title,
              airDate |-> first[i].local_date,
              source |-> [type |-> "genre", genreId |-> genreId] ]]

\* fetchTracklist: [] when the response is not ok
fetchTracklist(episodePath, failed) ==
    IF failed THEN <<>>
    ELSE LET tracklist == NTSTracklist(episodePath)
         IN [i \in DOMAIN tracklist |->
                [uid |-> tracklist[i].uid, episodePath |-> episodePath]]

\* Array.from(new Map(allEpisodes.map(ep => [ep.path, ep])).values()):
\* one entry per path, at the position of the first occurrence, holding the
\* value of the last occurrence
LastWithPath(eps, path) ==
    LET j == CHOOSE k \in DOMAIN eps :
                /\ eps[k].path = path
                /\ \A m \in (k + 1) .. Len(eps) : eps[m].path # path
    IN eps[j]

RECURSIVE UniqueFrom(_, _)
UniqueFrom(eps, i) ==
    IF i > Len(eps) THEN <<>>
    ELSE (IF \E j \in 1 .. (i - 1) : eps[j].path = eps[i].path
          THEN <<>>
          ELSE <<LastWithPath(eps, eps[i].path)>>) \o UniqueFrom(eps, i + 1)

UniqueEpisodes(allEpisodes) == UniqueFrom(allEpisodes, 1)

\* Mutant: the referenced tracks are not filtered out
UnreferencedOf_NoFilter(episode, tracks, referenced) ==
    [i \in DOMAIN tracks |->
        [ uid |-> tracks[i].uid,
          episodePath |-> tracks[i].episodePath,
          episodeTitle |-> episode.title,
          airDate |-> episode.airDate,
          source |-> episode.source ]]

\* Step 3 of POST: the tracks of every tracklist that are not referenced,
\* tagged with their episode
UnreferencedOf(episode, tracks, referenced) ==
    LET kept == SelectSeq(tracks, LAMBDA t : t.uid \notin referenced)
    IN [i \in DOMAIN kept |->
            [ uid |-> kept[i].uid,
              episodePath |-> kept[i].episodePath,
              episodeTitle |-> episode.title,
              airDate |-> episode.airDate,
              source |-> episode.source ]]

\* The positions of n promises in the order in which they settle
SettleOrder(n, completion) ==
    [k \in 1 .. n |-> IF completion = "reversed" THEN n + 1 - k ELSE k]

\* Mutant: the values are collected as the promises settle
PromiseAll_AsSettled(values, completion) ==
    LET order == SettleOrder(Len(values), completion)
    IN [k \in DOMAIN values |-> values[order[k]]]

\* Promise.all: each value is stored at the index of its promise when the
\* promise settles
RECURSIVE Settle(_, _, _, _)
Settle(slots, values, order, k) ==
    IF k > Len(order) THEN slots
    ELSE Settle([i \in DOMAIN slots |->
                    IF i = order[k] THEN values[i] ELSE slots[i]],
                values, order, k + 1)

PromiseAll(values, completion) ==
    Settle([i \in DOMAIN values |-> Null], values,
           SettleOrder(Len(values), completion), 1)

\* searchSpotifyTrack, when the fetch does not throw: null when the response
\* is not ok or has no item
searchSpotifyTrack(uid, notOk) ==
    IF notOk THEN Null ELSE SpotifyCatalogue(uid)

\* Mutant: the tracks without a Spotify match are dropped
TracksWithSpotify_MatchedOnly(allTracks, outage) ==
    LET matched == SelectSeq(allTracks, LAMBDA track :
                        searchSpotifyTrack(track.uid,
                                           track.uid \in outage.spotifyNotOk) # Null)
    IN [i \in DOMAIN matched |->
            [ uid |-> matched[i].uid,
              episodePath |-> matched[i].episodePath,
              episodeTitle |-> matched[i].episodeTitle,
              airDate |-> matched[i].airDate,
              source |-> matched[i].source,
              spotify |-> SpotifyCatalogue(matched[i].uid) ]]

\* Step 3.5 of POST: every track with its spotify field, same order
TracksWithSpotify(allTracks, outage) ==
    PromiseAll(
        [i \in DOMAIN allTracks |->
            [ uid |-> allTracks[i].uid,
              episodePath |-> allTracks[i].episodePath,
              episodeTitle |-> allTracks[i].episodeTitle,
              airDate |-> allTracks[i].airDate,
              source |-> allTracks[i].source,
              spotify |-> searchSpotifyTrack(allTracks[i].uid,
                                             allTracks[i].uid \in outage.spotifyNotOk) ]],
        outage.completion.lookups)

\* Step 1 of POST: episodeResults.flat(), a failed search resolving to []
AllEpisodes(body, outage) ==
    LET nT == Len(body.tracks)
        nG == Len(body.genres)
        episodeResults ==
            PromiseAll(
                [i \in 1 .. (nT + nG) |->
                    IF i \in outage.search THEN <<>>
                    ELSE IF i <= nT
                         THEN fetchEpisodesForTrack(body.tracks[i].artist,
                                                    body.tracks[i].title,
                                                    body.seenEpisodes)
                         ELSE fetchEpisodesForGenre(body.genres[i - nT],
                                                    body.seenEpisodes)],
                outage.completion.searches)
    IN Flat(episodeResults)

\* Mutant: an episode whose tracks are all referenced is left out of the
\* aggregation
Aggregate_SkipsReferenced(body, outage) ==
    SelectSeq(UniqueEpisodes(AllEpisodes(body, outage)),
              LAMBDA episode :
                  \E uid \in Range([i \in DOMAIN NTSTracklist(episode.path) |->
                                        NTSTracklist(episode.path)[i].uid]) :
                      uid \notin body.referencedTracks)

\* Mutant: without the catch on each search, one failed search rejects
\* Promise.all and no episode is collected
Aggregate_NoCatch(body, outage) ==
    IF outage.search \cap (1 .. (Len(body.tracks) + Len(body.genres))) # {}
    THEN <<>>
    ELSE UniqueEpisodes(AllEpisodes(body, outage))

\* Step 1 of POST: uniqueEpisodes
Aggregate(body, outage) == UniqueEpisodes(AllEpisodes(body, outage))

\* Steps 2 and 3 of POST: the tracklists of the unique episodes, and allTracks
AllTracks(body, uniqueEpisodes, outage) ==
    LET tracklistResults ==
            PromiseAll(
                [i \in DOMAIN uniqueEpisodes |->
                    [ episode |-> uniqueEpisodes[i],
                      tracks |-> fetchTracklist(uniqueEpisodes[i].path,
                                     uniqueEpisodes[i].path \in outage.tracklist) ]],
                outage.completion.tracklists)
    IN Flat([i \in DOMAIN tracklistResults |->
                UnreferencedOf(tracklistResults[i].episode,
                               tracklistResults[i].tracks,
                               body.referencedTracks)])

\* POST: the response to a request body at clock value clock, when the
\* external calls behave as in outage. fetches counts the external calls made.
POST(body, clock, outage) ==
    IF Len(body.tracks) = 0 /\ Len(body.genres) = 0
    THEN [status |-> 400, error |-> "Must provide at least one track or genre",
          fetches |-> 0]
    ELSE
    LET nT == Len(body.tracks)
        nG == Len(body.genres)
        uniqueEpisodes == Aggregate(body, outage)
    IN
    IF Len(uniqueEpisodes) = 0
    THEN [status |-> 404,
          error |-> "No episodes found. All episodes may have been seen already.",
          fetches |-> nT + nG]
    ELSE
    LET allTracks == AllTracks(body, uniqueEpisodes, outage)
    IN
    IF outage.token
    THEN [status |-> 500, error |-> "Failed to create stack",
          details |-> "Failed to get Spotify token",
          fetches |-> nT + nG + Len(uniqueEpisodes) + 1]
    ELSE IF \E i \in DOMAIN allTracks : allTracks[i].uid \in outage.spotifyThrows
    THEN [status |-> 500, error |-> "Failed to create stack",
          details |-> "fetch failed",
          fetches |-> nT + nG + Len(uniqueEpisodes) + 1 + Len(allTracks)]
    ELSE
    [ status |-> 200,
      fetches |-> nT + nG + Len(uniqueEpisodes) + 1 + Len(allTracks),
      stack |->
        [ id |-> clock,
          name |-> generateStackName([tracks |-> body.tracks,
                                      genres |-> body.genres]),
          sources |-> [tracks |-> body.tracks, genres |-> body.genres],
          tracks |-> TracksWithSpotify(allTracks, outage),
          episodesUsed |-> uniqueEpisodes ] ]

----------------------------------------------------------------------------
\* tasteProfileStorage.js

\* The two arrays hold no duplicates and are only read through includes,
\* filter and new Set: they are modelled by the sets of their elements.
markEpisodeAsSeen(seen, episodePath) ==
    IF episodePath \in seen THEN seen ELSE seen \cup {episodePath}

\* Mutant: the updated array is not written back
markTracksAsReferenced_NotSaved(referenced, trackUids) == referenced

\* [...new Set([...referenced, ...trackUids])]
markTracksAsReferenced(referenced, trackUids) == referenced \cup Range(trackUids)

\* Mutant: the history is cut one stack short of the cap
saveStackToHistory_TrimEarly(history, stack) ==
    Slice(<<stack>> \o history, HistoryCap - 1)

\* Mutant: the history is written without slice(0, 50)
saveStackToHistory_NoTrim(history, stack) == <<stack>> \o history

saveStackToHistory(history, stack) == Slice(<<stack>> \o history, HistoryCap)

TrackUidsOf(stack) == [i \in DOMAIN stack.tracks |-> stack.tracks[i].uid]

HasStack(history, stackId) == \E i \in DOMAIN history : history[i].id = stackId

\* history.find(stack => stack.id === stackId): the first match
FindStack(history, stackId) ==
    history[CHOOSE i \in DOMAIN history :
                /\ history[i].id = stackId
                /\ \A j \in 1 .. (i - 1) : history[j].id # stackId]

\* history.filter(stack => stack.id !== stackId)
RemainingStacks(history, stackId) ==
    SelectSeq(history, LAMBDA stack : stack.id # stackId)

RemainingTrackUids(history, stackId) ==
    LET remaining == RemainingStacks(history, stackId)
    IN UNION {Range(TrackUidsOf(remaining[i])) : i \in DOMAIN remaining}

\* Mutant: every uid of the deleted stack is released, also one that a
\* remaining stack holds
UpdatedReferenced_ReleaseAll(history, currentReferenced, stackId) ==
    LET deletedTrackUids == TrackUidsOf(FindStack(history, stackId))
    IN {uid \in currentReferenced : ~Includes(deletedTrackUids, uid)}

\* Mutant: the two conditions of the filter are joined by && instead of ||
UpdatedReferenced_And(history, currentReferenced, stackId) ==
    LET deletedTrackUids == TrackUidsOf(FindStack(history, stackId))
        remainingTrackUids == RemainingTrackUids(history, stackId)
    IN {uid \in currentReferenced :
            ~Includes(deletedTrackUids, uid) /\ uid \in remainingTrackUids}

\* Mutant: a sweep, which keeps only the uids that a remaining stack holds
UpdatedReferenced_Sweep(history, currentReferenced, stackId) ==
    {uid \in currentReferenced : uid \in RemainingTrackUids(history, stackId)}

\* deleteStack, lines 210-240: the value written to referencedTracks
UpdatedReferenced(history, currentReferenced, stackId) ==
    LET deletedTrackUids == TrackUidsOf(FindStack(history, stackId))
        remainingTrackUids == RemainingTrackUids(history, stackId)
    IN {uid \in currentReferenced :
            ~Includes(deletedTrackUids, uid) \/ uid \in remainingTrackUids}

\* Mutant: without the guard on stackToDelete, an absent id releases every uid
deleteStack_NoGuard(history, currentReferenced, stackId) ==
    << IF HasStack(history, stackId)
       THEN UpdatedReferenced(history, currentReferenced, stackId)
       ELSE {},
       RemainingStacks(history, stackId) >>

\* deleteStack as one call: the pair <<referencedTracks, stackHistory>> it leaves
deleteStack(history, currentReferenced, stackId) ==
    << IF HasStack(history, stackId)
       THEN UpdatedReferenced(history, currentReferenced, stackId)
       ELSE currentReferenced,
       RemainingStacks(history, stackId) >>

----------------------------------------------------------------------------
\* The page (taste-profile/page.js)

NoRequest == [tracks |-> <<>>, genres |-> <<>>,
              seenEpisodes |-> {}, referencedTracks |-> {}]
NoResponse == [status |-> 0, fetches |-> 0]
NoError == ""
InvalidSeeds == "Please add at least one track or genre"

\* The progress of the route on a request: its stage, the external calls it
\* has started and those that have not settled yet (SpecRoute)
NoRoute == [stage |-> "none", started |-> {}, pending |-> {}, outage |-> NoOutage]

IdleTab == [pc |-> "idle", error |-> NoError, request |-> NoRequest,
            response |-> NoResponse, route |-> NoRoute]
NoDelete == [pc |-> "idle"]

\* Mutant: the fields are tested without trim()
ValidTracks_NoTrim(rows) ==
    SelectSeq(rows, LAMBDA r : r.artist # "" \/ r.title # "")

\* tracks.filter(t => t.artist.trim() || t.title.trim())
ValidTracks(rows) ==
    SelectSeq(rows, LAMBDA r : Trim(r.artist) # "" \/ Trim(r.title) # "")

Forms(rowSet, maxRows) ==
    UNION {[1 .. n -> rowSet] : n \in 0 .. maxRows}

GenreSelections == {<<>>, <<"g1">>}

Init ==
    /\ seenEpisodes = {}
    /\ referencedTracks = {}
    /\ stackHistory = <<>>
    /\ now = 0
    /\ tabs = [t \in Tabs |-> IdleTab]
    /\ del = NoDelete
    /\ lastOp = [op |-> "load"]

\* handleCreateStack up to the await of fetch (lines 217-249); the button is
\* disabled while a build is loading
CreateStackClick(t, rows, genres, maxClock) ==
    /\ tabs[t].pc = "idle"
    /\ LET validTracks == ValidTracks(rows)
       IN IF Len(validTracks) = 0 /\ Len(genres) = 0
          THEN /\ tabs' = [tabs EXCEPT ![t] =
                              [IdleTab EXCEPT !.error = InvalidSeeds]]
               /\ UNCHANGED now
          ELSE /\ now < maxClock
               /\ tabs' = [tabs EXCEPT ![t] =
                              [ pc |-> "fetching",
                                error |-> NoError,
                                request |->
                                    [ tracks |-> validTracks,
                                      genres |-> genres,
                                      seenEpisodes |-> seenEpisodes,
                                      referencedTracks |-> referencedTracks ],
                                response |-> NoResponse,
                                route |-> NoRoute ]]
               \* the request is on the network for at least one clock tick
               /\ now' = now + 1
    /\ lastOp' = [op |-> "handleCreateStack", tab |-> t]
    /\ UNCHANGED <<store, del>>

\* The route answers the request of tab t
ServerPOST(t, outage) ==
    /\ tabs[t].pc = "fetching"
    /\ tabs' = [tabs EXCEPT ![t].pc = "responded",
                            ![t].response = POST(tabs[t].request, now, outage)]
    /\ lastOp' = [op |-> "POST", tab |-> t]
    /\ UNCHANGED <<store, now, del>>

\* fetch itself rejects (network error): the catch block of handleCreateStack
FetchFails(t) ==
    /\ tabs[t].pc = "fetching"
    /\ tabs' = [tabs EXCEPT ![t] = [IdleTab EXCEPT !.error = "Failed to fetch"]]
    /\ lastOp' = [op |-> "fetchRejected", tab |-> t]
    /\ UNCHANGED <<store, now, del>>

\* Mutant: the commit drops the tracks that were referenced since the request
\* was sent
ReceiveResponse_FilterAtCommit(t) ==
    /\ tabs[t].pc = "responded"
    /\ LET response == tabs[t].response
       IN IF response.status # 200
          THEN /\ tabs' = [tabs EXCEPT ![t] =
                              [IdleTab EXCEPT !.error = response.error]]
               /\ lastOp' = [op |-> "buildFailed", tab |-> t]
               /\ UNCHANGED store
          ELSE LET stack == [response.stack EXCEPT !.tracks =
                                SelectSeq(@, LAMBDA track :
                                              track.uid \notin referencedTracks)]
               IN /\ stackHistory' = saveStackToHistory(stackHistory, stack)
                  /\ referencedTracks' =
                         markTracksAsReferenced(referencedTracks, TrackUidsOf(stack))
                  /\ tabs' = [tabs EXCEPT ![t] = IdleTab]
                  /\ lastOp' = [op |-> "commit", tab |-> t]
                  /\ UNCHANGED seenEpisodes
    /\ UNCHANGED <<now, del>>

\* Mutant: response.ok is not tested, so that the stack field of an error
\* body (undefined) is saved to the history
ReceiveResponse_NoOkCheck(t) ==
    /\ tabs[t].pc = "responded"
    /\ LET response == tabs[t].response
           saved == IF response.status = 200 THEN response.stack
                    ELSE [id |-> 0, name |-> Null,
                          sources |-> [tracks |-> <<>>, genres |-> <<>>],
                          tracks |-> <<>>, episodesUsed |-> <<>>]
       IN /\ stackHistory' = saveStackToHistory(stackHistory, saved)
          /\ referencedTracks' =
                 markTracksAsReferenced(referencedTracks, TrackUidsOf(saved))
          /\ tabs' = [tabs EXCEPT ![t] = IdleTab]
          /\ lastOp' = [op |-> IF response.status = 200 THEN "commit"
                               ELSE "buildFailed", tab |-> t]
          /\ UNCHANGED seenEpisodes
    /\ UNCHANGED <<now, del>>

\* handleCreateStack after the await (lines 250-276)
ReceiveResponse(t) ==
    /\ tabs[t].pc = "responded"
    /\ LET response == tabs[t].response
       IN IF response.status # 200
          THEN /\ tabs' = [tabs EXCEPT ![t] =
                              [IdleTab EXCEPT !.error = response.error]]
               /\ lastOp' = [op |-> "buildFailed", tab |-> t]
               /\ UNCHANGED store
          ELSE /\ stackHistory' = saveStackToHistory(stackHistory, response.stack)
               /\ referencedTracks' =
                      markTracksAsReferenced(referencedTracks,
                                             TrackUidsOf(response.stack))
               /\ tabs' = [tabs EXCEPT ![t] = IdleTab]
               /\ lastOp' = [op |-> "commit", tab |-> t]
               /\ UNCHANGED seenEpisodes
    /\ UNCHANGED <<now, del>>

\* The episode links the page shows: the episodes of the tracks of the stacks
\* in history
ShownEpisodes ==
    UNION {{stackHistory[i].tracks[j].episodePath : j \in DOMAIN stackHistory[i].tracks}
           : i \in DOMAIN stackHistory}

\* handleEpisodeLinkClick
EpisodeLinkClick(episodePath) ==
    /\ episodePath \in ShownEpisodes
    /\ seenEpisodes' = markEpisodeAsSeen(seenEpisodes, episodePath)
    /\ lastOp' = [op |-> "markEpisodeAsSeen"]
    /\ UNCHANGED <<referencedTracks, stackHistory, now, tabs, del>>

\* confirmDelete: deleteStack(stackToDelete.id) as one call. stackToDelete
\* comes from the page's copy of the history, which another tab may have
\* changed since, so the id may be absent from the store.
ConfirmDelete(stackId) ==
    /\ del.pc = "idle"
    /\ LET result == deleteStack(stackHistory, referencedTracks, stackId)
       IN /\ referencedTracks' = result[1]
          /\ stackHistory' = result[2]
    /\ lastOp' = [op |-> "deleteStack", stackId |-> stackId,
                  found |-> HasStack(stackHistory, stackId),
                  deletedTrackUids |->
                      IF HasStack(stackHistory, stackId)
                      THEN Range(TrackUidsOf(FindStack(stackHistory, stackId)))
                      ELSE {}]
    /\ UNCHANGED <<seenEpisodes, now, tabs, del>>

\* "Clear All Data": clearAllTasteProfileData
ClearAllData ==
    /\ del.pc = "idle"
    /\ seenEpisodes' = {}
    /\ referencedTracks' = {}
    /\ stackHistory' = <<>>
    /\ lastOp' = [op |-> "clearAllTasteProfileData"]
    /\ UNCHANGED <<now, tabs, del>>

Next ==
    \/ \E t \in Tabs, rows \in Forms(FormRows, MaxRows), genres \in GenreSelections :
            CreateStackClick(t, rows, genres, MaxClock)
    \/ \E t \in Tabs, outage \in Outages : ServerPOST(t, outage)
    \/ \E t \in Tabs : FetchFails(t)
    \/ \E t \in Tabs : ReceiveResponse(t)
    \/ \E episodePath \in EpisodePaths : EpisodeLinkClick(episodePath)
    \/ \E stackId \in 1 .. MaxClock : ConfirmDelete(stackId)
    \/ ClearAllData

Spec == Init /\ [][Next]_vars

----------------------------------------------------------------------------
\* SpecSteps: deleteStack write by write. localStorage is shared by the tabs
\* of the origin, so another tab reads and writes the store between the two
\* setItem calls of a deleteStack; the tab that runs deleteStack may also be
\* closed between them.

\* deleteStack, lines 205-240: history and referencedTracks are read, and the
\* updated referencedTracks is written if the stack is found
DeleteWriteReferenced(stackId) ==
    /\ del.pc = "idle"
    /\ referencedTracks' =
           IF HasStack(stackHistory, stackId)
           THEN UpdatedReferenced(stackHistory, referencedTracks, stackId)
           ELSE referencedTracks
    /\ del' = [pc |-> "wroteReferenced", stackId |-> stackId,
               history |-> stackHistory]
    /\ lastOp' = [op |-> "deleteStack:referencedTracks"]
    /\ UNCHANGED <<seenEpisodes, stackHistory, now, tabs>>

\* deleteStack, lines 243-245: the filter of the history read at line 205 is
\* written
DeleteWriteHistory ==
    /\ del.pc = "wroteReferenced"
    /\ stackHistory' = RemainingStacks(del.history, del.stackId)
    /\ del' = NoDelete
    /\ lastOp' = [op |-> "deleteStack:stackHistory"]
    /\ UNCHANGED <<seenEpisodes, referencedTracks, now, tabs>>

\* The tab is closed, or the second setItem throws, between the two writes
DeleteInterrupted ==
    /\ del.pc = "wroteReferenced"
    /\ del' = NoDelete
    /\ lastOp' = [op |-> "deleteStack:interrupted"]
    /\ UNCHANGED <<store, now, tabs>>

NextSteps ==
    \/ \E t \in Tabs, rows \in Forms(FormRows, MaxRows), genres \in GenreSelections :
            CreateStackClick(t, rows, genres, MaxClock)
    \/ \E t \in Tabs, outage \in Outages : ServerPOST(t, outage)
    \/ \E t \in Tabs : ReceiveResponse(t)
    \/ \E stackId \in 1 .. MaxClock : DeleteWriteReferenced(stackId)
    \/ DeleteWriteHistory
    \/ DeleteInterrupted

SpecSteps == Init /\ [][NextSteps]_vars

----------------------------------------------------------------------------
\* SpecRoute: the route call by call. Each stage starts its external calls
\* together, the calls settle in any order, and the route goes on when the
\* await of the stage returns.

Call(kind, index, key) == [kind |-> kind, index |-> index, key |-> key]

RouteOutages == {NoOutage, [NoOutage EXCEPT !.tracklist = {"e2"}]}

\* Mutant: the route goes on without awaiting the calls of the stage
Awaited_NoAwait(route) == TRUE

\* await Promise.all(...), await getSpotifyToken(): every call of the stage
\* has settled
Awaited(route) == route.pending = {}

\* POST, lines 172-219: the body is validated and the searches are started
RouteBegin(t, outage) ==
    /\ tabs[t].pc = "fetching"
    /\ tabs[t].route.stage = "none"
    /\ LET body == tabs[t].request
           searches == {Call("search", i, "") :
                            i \in 1 .. (Len(body.tracks) + Len(body.genres))}
       IN tabs' = [tabs EXCEPT ![t].route =
                      [stage |-> "search", started |-> searches,
                       pending |-> searches, outage |-> outage]]
    /\ lastOp' = [op |-> "route:searches", tab |-> t]
    /\ UNCHANGED <<store, now, del>>

\* One external call of the route settles
CallSettles(t, call) ==
    /\ tabs[t].pc = "fetching"
    /\ call \in tabs[t].route.pending
    /\ tabs' = [tabs EXCEPT ![t].route.pending = @ \ {call}]
    /\ lastOp' = [op |-> "route:settled", tab |-> t]
    /\ UNCHANGED <<store, now, del>>

\* POST, lines 219-342: after the await of a stage the route starts the calls
\* of the next stage, or answers
RouteContinue(t) ==
    /\ tabs[t].pc = "fetching"
    /\ tabs[t].route.stage # "none"
    /\ Awaited(tabs[t].route)
    /\ LET body == tabs[t].request
           route == tabs[t].route
           uniqueEpisodes == Aggregate(body, route.outage)
           allTracks == AllTracks(body, uniqueEpisodes, route.outage)
           tracklists == {Call("tracklist", i, uniqueEpisodes[i].path) :
                              i \in DOMAIN uniqueEpisodes}
           lookups == {Call("lookup", i, allTracks[i].uid) : i \in DOMAIN allTracks}
           answer == [tabs EXCEPT ![t].pc = "responded",
                                  ![t].response = POST(body, now, route.outage)]
           starts(stage, calls) ==
               [tabs EXCEPT ![t].route = [stage |-> stage,
                                          started |-> route.started \cup calls,
                                          pending |-> route.pending \cup calls,
                                          outage |-> route.outage]]
       IN CASE route.stage = "search" ->
                  IF uniqueEpisodes = <<>>
                  THEN tabs' = answer
                  ELSE tabs' = starts("tracklist", tracklists)
            [] route.stage = "tracklist" ->
                  tabs' = starts("token", {Call("token", 0, "")})
            [] route.stage = "token" -> tabs' = starts("lookup", lookups)
            [] route.stage = "lookup" -> tabs' = answer
    /\ lastOp' = [op |-> "route:continue", tab |-> t]
    /\ UNCHANGED <<store, now, del>>

NextRoute ==
    \/ \E rows \in Forms(FormRows, MaxRows), genres \in GenreSelections :
            CreateStackClick("tab1", rows, genres, MaxClockRoute)
    \/ \E outage \in RouteOutages : RouteBegin("tab1", outage)
    \/ \E call \in tabs["tab1"].route.pending : CallSettles("tab1", call)
    \/ RouteContinue("tab1")
    \/ ReceiveResponse("tab1")

SpecRoute == Init /\ [][NextRoute]_vars

----------------------------------------------------------------------------
\* SpecFull: one tab builds from the seed Bonobo, one build after the other,
\* until the history is longer than HistoryCap; the user deletes the oldest
\* stack of the history or clears all data.

OldestStackId ==
    IF stackHistory = <<>> THEN {} ELSE {stackHistory[Len(stackHistory)].id}

NextFull ==
    \/ CreateStackClick("tab1", <<BonoboRow>>, <<>>, MaxClockFull)
    \/ ServerPOST("tab1", NoOutage)
    \/ ReceiveResponse("tab1")
    \/ \E stackId \in OldestStackId : ConfirmDelete(stackId)
    \/ ClearAllData

SpecFull == Init /\ [][NextFull]_vars

----------------------------------------------------------------------------
\* SpecSeq: a single tab, so that every build reads the store after the
\* build before it has been committed.

NextSeq ==
    \/ \E rows \in Forms(FormRows, MaxRows), genres \in GenreSelections :
            CreateStackClick("tab1", rows, genres, MaxClockSeq)
    \/ \E outage \in Outages : ServerPOST("tab1", outage)
    \/ FetchFails("tab1")
    \/ ReceiveResponse("tab1")
    \/ \E episodePath \in EpisodePaths : EpisodeLinkClick(episodePath)
    \/ \E stackId \in 1 .. MaxClockSeq : ConfirmDelete(stackId)
    \/ ClearAllData

SpecSeq == Init /\ [][NextSeq]_vars

----------------------------------------------------------------------------
\* SpecName: one tab sends requests with up to MaxNameRows track rows and
\* MaxNameGenres genres, and the route names the stack it returns.

FourTetRow == [artist |-> "Four Tet", title |-> "Kool FM"]
TitleOnlyRow == [artist |-> "", title |-> "Kerala"]
NameRows == {BlankRow, BonoboRow, FourTetRow, TitleOnlyRow}

NameGenreIds == {"g1", "g2", "g3"}

\* The selected genres: a genre is selected at most once
NameGenreSelections ==
    {genres \in UNION {[1 .. n -> NameGenreIds] : n \in 0 .. MaxNameGenres} :
        \A i, j \in DOMAIN genres : i # j => genres[i] # genres[j]}

NextName ==
    \/ \E rows \in Forms(NameRows, MaxNameRows), genres \in NameGenreSelections :
            CreateStackClick("tab1", rows, genres, MaxClockName)
    \/ ServerPOST("tab1", NoOutage)
    \/ FetchFails("tab1")

SpecName == Init /\ [][NextName]_vars

----------------------------------------------------------------------------
\* Claims

\* The track uids of the stacks of a history
KeysOf(history) ==
    UNION {Range(TrackUidsOf(history[i])) : i \in DOMAIN history}

\* C1: reference safety. In every state reached by commits, deletions and
\* clears, a track uid is in referencedTracks if and only if it is the uid of
\* a track of some stack in stackHistory.
C1_ReferenceSafety == referencedTracks = KeysOf(stackHistory)

\* No track uid is in two stacks of a history
NoRepeats(history) ==
    \A i, j \in DOMAIN history :
        i # j => Range(TrackUidsOf(history[i])) \cap Range(TrackUidsOf(history[j])) = {}

\* C2: no repeats across stacks. When every build reads referencedTracks
\* after the operation before it has finished, no track uid is in two stacks
\* of stackHistory, and the route never returns a track whose uid is in the
\* referencedTracks of its request.
C2_NoRepeatsAcrossStacks ==
    [][ /\ NoRepeats(stackHistory')
        /\ \A t \in Tabs :
              (tabs[t].pc = "fetching" /\ tabs'[t].pc = "responded"
                    /\ tabs'[t].response.status = 200)
              => Range(TrackUidsOf(tabs'[t].response.stack))
                    \cap tabs[t].request.referencedTracks = {} ]_vars

\* Two committed stacks with tracks are in the history, the newer one built
\* while the uids of the older one were referenced
C2_Witness ==
    /\ lastOp.op = "commit"
    /\ Len(stackHistory) >= 2
    /\ stackHistory[1].tracks # <<>>
    /\ stackHistory[2].tracks # <<>>
    /\ Range(TrackUidsOf(stackHistory[2])) \subseteq referencedTracks

\* C3: immediately after a built stack is committed, the uid of every track
\* of that stack is in referencedTracks (and the stack is the newest of the
\* history).
C3_CommittedTracksReferenced ==
    [][ \A t \in Tabs :
          (tabs[t].pc = "responded" /\ tabs[t].response.status = 200
                /\ tabs'[t].pc = "idle")
          => /\ Range(TrackUidsOf(tabs[t].response.stack)) \subseteq referencedTracks'
             /\ stackHistory'[1] = tabs[t].response.stack ]_vars

\* A second stack, with tracks, has just been committed and its uids are
\* referenced
C3_Witness ==
    /\ lastOp.op = "commit"
    /\ Len(stackHistory) >= 2
    /\ stackHistory[1].tracks # <<>>
    /\ Range(TrackUidsOf(stackHistory[1])) \subseteq referencedTracks

\* C4: exposure monotonicity. A build is given the seenEpisodes of the store
\* as they are when it starts; the stack the route returns for it, for track
\* seeds and genre seeds alike, has no episode and no track of an episode in
\* that seen set; and seenEpisodes only grows until all data is cleared.
C4_ExposureMonotonicity ==
    [][ /\ \A t \in Tabs :
              (tabs[t].pc = "idle" /\ tabs'[t].pc = "fetching")
              => tabs'[t].request.seenEpisodes = seenEpisodes
        /\ \A t \in Tabs :
              (tabs[t].pc = "fetching" /\ tabs'[t].pc = "responded"
                    /\ tabs'[t].response.status = 200)
              => LET stack == tabs'[t].response.stack
                     seen == tabs[t].request.seenEpisodes
                 IN /\ \A i \in DOMAIN stack.episodesUsed :
                          stack.episodesUsed[i].path \notin seen
                    /\ \A i \in DOMAIN stack.tracks :
                          stack.tracks[i].episodePath \notin seen
        /\ seenEpisodes \subseteq seenEpisodes'
              \/ lastOp'.op = "clearAllTasteProfileData" ]_vars

\* Scenario B: the seed Bonobo has three candidate episodes, two of them are
\* seen, and the stack returned uses only the third one and its tracks
C4_Witness ==
    \E t \in Tabs :
        /\ tabs[t].pc = "responded"
        /\ tabs[t].response.status = 200
        /\ tabs[t].request.tracks = <<BonoboRow>>
        /\ tabs[t].request.genres = <<>>
        /\ Cardinality(tabs[t].request.seenEpisodes) = 2
        /\ Len(tabs[t].response.stack.episodesUsed) = 1
        /\ tabs[t].response.stack.episodesUsed[1].path
                \notin tabs[t].request.seenEpisodes
        /\ tabs[t].response.stack.tracks # <<>>
        /\ \A i \in DOMAIN tabs[t].response.stack.tracks :
              tabs[t].response.stack.tracks[i].episodePath
                  = tabs[t].response.stack.episodesUsed[1].path

\* C5: deleting a stack that holds uid K, while a stack that stays in
\* stackHistory holds K too, leaves K in referencedTracks (K being referenced
\* before the deletion).
C5_SharedKeyStaysReferenced ==
    [][ (lastOp'.op = "deleteStack" /\ lastOp'.found)
        => \A K \in Range(TrackUidsOf(FindStack(stackHistory, lastOp'.stackId))) :
              (K \in referencedTracks /\ K \in KeysOf(stackHistory'))
              => K \in referencedTracks' ]_vars

\* Scenario D: a stack has just been deleted, one of its uids is held by a
\* stack that is still in the history, and that uid is still referenced
C5_Witness ==
    /\ lastOp.op = "deleteStack"
    /\ lastOp.found
    /\ \E K \in lastOp.deletedTrackUids :
          K \in KeysOf(stackHistory) /\ K \in referencedTracks

C8_DeleteAbsentIsNoOp ==
    [][ (lastOp'.op = "deleteStack" /\ ~lastOp'.found)
        => /\ stackHistory' = stackHistory
           /\ referencedTracks' = referencedTracks
           /\ seenEpisodes' = seenEpisodes ]_vars

\* deleteStack has just been called with an id that no stack of a non-empty
\* history has, while uids are referenced
C8_Witness ==
    /\ lastOp.op = "deleteStack"
    /\ ~lastOp.found
    /\ stackHistory # <<>>
    /\ referencedTracks # {}

\* C9: no state is observable in which deleteStack has released the uids of a
\* stack in referencedTracks while the stack is still in stackHistory, neither
\* between the two writes nor after an interruption between them.
C9_DeleteAtomic ==
    \A i \in DOMAIN stackHistory :
        Range(TrackUidsOf(stackHistory[i])) \subseteq referencedTracks

\* A form without genres whose rows are blank after trim()
ZeroSeeds(rows, genres) ==
    /\ genres = <<>>
    /\ \A i \in DOMAIN rows : Trim(rows[i].artist) = "" /\ Trim(rows[i].title) = ""

\* C10: a build with zero seeds is rejected with InvalidSeeds: the page sends
\* no request and holds no value read from the store, the store is not
\* written, and the route answers such a body with 400 before any fetch.
C10_ZeroSeedsRejected ==
    [][ \A t \in Tabs, rows \in Forms(FormRows, MaxRows), genres \in GenreSelections :
          (ZeroSeeds(rows, genres) /\ CreateStackClick(t, rows, genres, MaxClock))
          => /\ tabs'[t].pc = "idle"
             /\ tabs'[t].error = InvalidSeeds
             /\ tabs'[t].request = NoRequest
             /\ tabs'[t].response = NoResponse
             /\ UNCHANGED store
             /\ \A outage \in Outages :
                  LET response ==
                          POST([tracks |-> <<>>, genres |-> genres,
                                seenEpisodes |-> seenEpisodes,
                                referencedTracks |-> referencedTracks],
                               now, outage)
                  IN response.status = 400 /\ response.fetches = 0 ]_vars

\* A tab has just been refused a build of blank rows while the store holds
\* seen episodes and referenced uids
C10_Witness ==
    /\ lastOp.op = "handleCreateStack"
    /\ tabs[lastOp.tab].pc = "idle"
    /\ tabs[lastOp.tab].error = InvalidSeeds
    /\ seenEpisodes # {}
    /\ referencedTracks # {}

\* C11: a build with at least one seed returns no stack, and ends with
\* NoNewContent, when no unseen episode is found and also when episodes are
\* found but no track is left after the filter on referencedTracks: every
\* stack that the route returns has episodes and tracks.
C11_NoNewContent ==
    \A t \in Tabs :
        (tabs[t].pc = "responded" /\ tabs[t].response.status = 200)
        => /\ tabs[t].response.stack.episodesUsed # <<>>
           /\ tabs[t].response.stack.tracks # <<>>

\* C12: whatever single search, tracklist fetch or Spotify lookup fails, by
\* an error status or by a throw, the build returns a stack: a request with
\* seeds is answered by 200 or by NoNewContent (404), never by another error.
C12_PerItemFailuresAbsorbed ==
    \A t \in Tabs :
        (tabs[t].pc = "responded" /\ tabs[t].request # NoRequest)
        => tabs[t].response.status \in {200, 404}

\* The entries of a sequence whose index, shifted by offset, is not in drop
RECURSIVE DropAt(_, _, _, _)
DropAt(seq, i, offset, drop) ==
    IF i > Len(seq) THEN <<>>
    ELSE (IF (offset + i) \in drop THEN <<>> ELSE <<seq[i]>>)
         \o DropAt(seq, i + 1, offset, drop)

\* A request body without the seeds at the positions in failed
WithoutSeeds(body, failed) ==
    [body EXCEPT !.tracks = DropAt(body.tracks, 1, 0, failed),
                 !.genres = DropAt(body.genres, 1, Len(body.tracks), failed)]

\* C13: when the search of a seed fails, the unique episodes of the request
\* are exactly those of the request made of the other seeds alone, and when
\* these are not empty and nothing else fails the route answers 200 with
\* them as episodesUsed.
C13_FailedSeedContributesNothing ==
    \A t \in Tabs :
        tabs[t].pc = "fetching"
        => \A outage \in Outages :
            LET body == tabs[t].request
                failed == outage.search \cap (1 .. (Len(body.tracks) + Len(body.genres)))
                others == Aggregate(WithoutSeeds(body, failed), NoOutage)
                response == POST(body, now, [NoOutage EXCEPT !.search = outage.search])
            IN failed # {}
               => /\ Aggregate(body, outage) = others
                  /\ others # <<>>
                        => /\ response.status = 200
                           /\ response.stack.episodesUsed = others

\* The route has answered a request of a track seed and a genre seed with a
\* stack that has none of the episodes of the track seed, whose search failed
C13_Witness ==
    \E t \in Tabs :
        /\ tabs[t].pc = "responded"
        /\ tabs[t].response.status = 200
        /\ Len(tabs[t].request.tracks) = 1
        /\ Len(tabs[t].request.genres) = 1
        /\ fetchEpisodesForTrack(tabs[t].request.tracks[1].artist,
                                 tabs[t].request.tracks[1].title,
                                 tabs[t].request.seenEpisodes) # <<>>
        /\ tabs[t].response.stack.episodesUsed # <<>>
        /\ \A i \in DOMAIN tabs[t].response.stack.episodesUsed :
                tabs[t].response.stack.episodesUsed[i].source.type = "genre"
        /\ "e1" \notin tabs[t].request.seenEpisodes
        /\ \A i \in DOMAIN tabs[t].response.stack.episodesUsed :
                tabs[t].response.stack.episodesUsed[i].path # "e1"

\* C14: a stack that the route returns holds at most one track per track
\* uid, also when two of its episodes have a track with that uid.
C14_OneEntryPerTrackKey ==
    \A t \in Tabs :
        (tabs[t].pc = "responded" /\ tabs[t].response.status = 200)
        => \A i, j \in DOMAIN tabs[t].response.stack.tracks :
                i # j => tabs[t].response.stack.tracks[i].uid
                            # tabs[t].response.stack.tracks[j].uid

\* The first episode with a path in a list of episodes
FirstWithPath(eps, path) ==
    eps[CHOOSE k \in DOMAIN eps :
            /\ eps[k].path = path
            /\ \A m \in 1 .. (k - 1) : eps[m].path # path]

\* C15: an episode that several seeds return is in the unique episodes once,
\* with the fields of its first occurrence in seed order: its source is the
\* first seed that returned it.
C15_FirstOccurrenceWins ==
    \A t \in Tabs :
        tabs[t].pc = "fetching"
        => \A outage \in Outages :
            LET allEpisodes == AllEpisodes(tabs[t].request, outage)
                uniqueEpisodes == Aggregate(tabs[t].request, outage)
            IN /\ \A i, j \in DOMAIN uniqueEpisodes :
                    i # j => uniqueEpisodes[i].path # uniqueEpisodes[j].path
               /\ \A i \in DOMAIN uniqueEpisodes :
                    uniqueEpisodes[i] = FirstWithPath(allEpisodes, uniqueEpisodes[i].path)

\* C16: two stacks built by two calls of the route never have the same id,
\* whether they are in two responses or in stackHistory.
C16_StackIdsUnique ==
    /\ \A i, j \in DOMAIN stackHistory :
            i # j => stackHistory[i].id # stackHistory[j].id
    /\ \A t1, t2 \in Tabs :
            (/\ t1 # t2
             /\ tabs[t1].pc = "responded" /\ tabs[t1].response.status = 200
             /\ tabs[t2].pc = "responded" /\ tabs[t2].response.status = 200)
            => tabs[t1].response.stack.id # tabs[t2].response.stack.id

\* sub is made of entries of seq, in the order they have in seq
RECURSIVE IsSubsequence(_, _)
IsSubsequence(sub, seq) ==
    IF sub = <<>> THEN TRUE
    ELSE IF seq = <<>> THEN FALSE
    ELSE IF Head(sub) = Head(seq) THEN IsSubsequence(Tail(sub), Tail(seq))
    ELSE IsSubsequence(sub, Tail(seq))

\* C17: stackHistory never holds more than 50 stacks; a save puts the new
\* stack at index 0, followed by the stacks that were there, in the order
\* they had; a deletion keeps the order of the stacks that stay.
C17_HistoryBoundedNewestFirst ==
    [][ /\ Len(stackHistory') <= HistoryCap
        /\ lastOp'.op = "commit"
              => /\ stackHistory' # <<>>
                 /\ stackHistory'[1] = tabs[lastOp'.tab].response.stack
                 /\ Tail(stackHistory') = Slice(stackHistory, HistoryCap - 1)
        /\ lastOp'.op = "deleteStack"
              => IsSubsequence(stackHistory', stackHistory) ]_vars

\* The 51st stack has just been saved: the history is full, with the new
\* stack at index 0 and the second stack ever saved at the end
C17_Witness ==
    /\ lastOp.op = "commit"
    /\ Len(stackHistory) = HistoryCap
    /\ stackHistory[1].id = HistoryCap + 1
    /\ stackHistory[HistoryCap].id = 2

\* C18 as stated: a stack of stackHistory stays in it, unchanged, at every
\* step that is not a deleteStack with its id or a clear of all data.
C18_SavedStackStays ==
    [][ \A i \in DOMAIN stackHistory :
            \/ \E j \in DOMAIN stackHistory' : stackHistory'[j] = stackHistory[i]
            \/ lastOp'.op = "deleteStack" /\ lastOp'.stackId = stackHistory[i].id
            \/ lastOp'.op = "clearAllTasteProfileData" ]_vars

\* C18 as amended: a stack of stackHistory stays in it, unchanged, at every
\* step that is not a deleteStack with its id, a clear of all data, or the
\* save of a further stack while the history holds 50 stacks and the stack is
\* the last of them.
C18_SavedStackStaysUnderCap ==
    [][ \A i \in DOMAIN stackHistory :
            \/ \E j \in DOMAIN stackHistory' : stackHistory'[j] = stackHistory[i]
            \/ lastOp'.op = "deleteStack" /\ lastOp'.stackId = stackHistory[i].id
            \/ lastOp'.op = "clearAllTasteProfileData"
            \/ /\ lastOp'.op = "commit"
               /\ Len(stackHistory) = HistoryCap
               /\ i = HistoryCap ]_vars

\* The 51st stack has just been saved and the first stack, never deleted (its
\* uids are still referenced), is no longer in the history while the 50
\* stacks saved after it are
C18_Witness ==
    /\ lastOp.op = "commit"
    /\ ~HasStack(stackHistory, 1)
    /\ \A id \in 2 .. (HistoryCap + 1) : HasStack(stackHistory, id)
    /\ KeysOf(stackHistory) = {}
    /\ referencedTracks # {}

ArtistsOf(tracks) ==
    LET withArtist == SelectSeq(tracks, LAMBDA track : track.artist # "")
    IN [i \in DOMAIN withArtist |-> withArtist[i].artist]

\* The name that the table of the specification gives for a seeds and g genres
TableName(artists, genres) ==
    LET a == Len(artists)
        g == Len(genres)
    IN CASE a >= 1 /\ g >= 1 ->
              (CASE a = 1 /\ g = 1 -> artists[1] \o " + " \o genres[1]
                 [] a > 1 /\ g = 1 -> artists[1] \o " & More + " \o genres[1]
                 [] a = 1 /\ g > 1 -> artists[1] \o " + " \o genres[1] \o " Mix"
                 [] a > 1 /\ g > 1 -> artists[1] \o " + " \o genres[1] \o " & More")
         [] a >= 1 /\ g = 0 ->
              (CASE a = 1 -> artists[1] \o " Mix"
                 [] a = 2 -> artists[1] \o " + " \o artists[2]
                 [] a > 2 -> artists[1] \o " & " \o ToString(a - 1) \o " More")
         [] a = 0 /\ g >= 1 ->
              (CASE g = 1 -> genres[1] \o " Stack"
                 [] g = 2 -> genres[1] \o " + " \o genres[2]
                 [] g > 2 -> genres[1] \o " Mix")
         [] a = 0 /\ g = 0 -> "Music Stack"

\* C20: generateStackName returns, for the seeds of every request and of
\* every stack that the route returns, the name of the table for the number
\* of seeds with an artist and the number of genres.
C20_StackNameTable ==
    \A t \in Tabs :
        /\ tabs[t].pc = "fetching"
            => generateStackName([tracks |-> tabs[t].request.tracks,
                                  genres |-> tabs[t].request.genres])
                 = TableName(ArtistsOf(tabs[t].request.tracks),
                             tabs[t].request.genres)
        /\ (tabs[t].pc = "responded" /\ tabs[t].response.status = 200)
            => tabs[t].response.stack.name
                 = TableName(ArtistsOf(tabs[t].response.stack.sources.tracks),
                             tabs[t].response.stack.sources.genres)

\* The route has returned a stack built from three seeds with an artist, a
\* seed without one and no genre
C20_Witness ==
    \E t \in Tabs :
        /\ tabs[t].pc = "responded"
        /\ tabs[t].response.status = 200
        /\ Len(tabs[t].response.stack.sources.tracks) > 3
        /\ tabs[t].response.stack.name = "Bonobo & 2 More"

\* A track without its spotify field
WithoutSpotify(track) ==
    [field \in (DOMAIN track) \ {"spotify"} |-> track[field]]

\* C21: the enrichment returns as many tracks as it is given, in the same
\* order, each one its input track with the spotify field added; a track
\* without a match has the field null and stays in the stack.
C21_EnrichmentKeepsTracks ==
    \A t \in Tabs :
        tabs[t].pc = "fetching"
        => \A outage \in Outages :
            LET body == tabs[t].request
                allTracks == AllTracks(body, Aggregate(body, outage), outage)
                enriched == TracksWithSpotify(allTracks, outage)
                response == POST(body, now, outage)
            IN /\ Len(enriched) = Len(allTracks)
               /\ \A i \in DOMAIN allTracks :
                    /\ WithoutSpotify(enriched[i]) = allTracks[i]
                    /\ enriched[i].spotify \in {Null, SpotifyCatalogue(allTracks[i].uid)}
               /\ response.status = 200 => response.stack.tracks = enriched

\* The route has returned a stack with a track that has a Spotify match
\* followed by a track that has none
C21_Witness ==
    \E t \in Tabs :
        /\ tabs[t].pc = "responded"
        /\ tabs[t].response.status = 200
        /\ \E i, j \in DOMAIN tabs[t].response.stack.tracks :
                /\ i < j
                /\ tabs[t].response.stack.tracks[i].spotify # Null
                /\ tabs[t].response.stack.tracks[j].spotify = Null

\* C22: the unique episodes of a request depend only on its seeds and its
\* seenEpisodes: they are the same for every order in which the searches
\* settle and for every referencedTracks, and two requests in flight with the
\* same seeds and the same seenEpisodes get the same episodes.
C22_AggregationRepeatable ==
    /\ \A t \in Tabs :
        tabs[t].pc = "fetching"
        => \A outage \in Outages, searches \in {"inOrder", "reversed"},
              referenced \in {{}, TrackUids} :
                Aggregate([tabs[t].request EXCEPT !.referencedTracks = referenced],
                          [outage EXCEPT !.completion.searches = searches])
                    = Aggregate(tabs[t].request, outage)
    /\ \A t1, t2 \in Tabs :
        (/\ tabs[t1].pc = "fetching" /\ tabs[t2].pc = "fetching"
         /\ tabs[t1].request.tracks = tabs[t2].request.tracks
         /\ tabs[t1].request.genres = tabs[t2].request.genres
         /\ tabs[t1].request.seenEpisodes = tabs[t2].request.seenEpisodes)
        => \A outage \in Outages :
                Aggregate(tabs[t1].request, outage) = Aggregate(tabs[t2].request, outage)

\* Two requests with the same seeds and the same seenEpisodes, sent with no
\* commit and no episode click between them, have been answered with stacks
\* of the same episodes
C22_Witness ==
    /\ tabs["tab1"].pc = "responded" /\ tabs["tab1"].response.status = 200
    /\ tabs["tab2"].pc = "responded" /\ tabs["tab2"].response.status = 200
    /\ tabs["tab1"].request = tabs["tab2"].request
    /\ Len(tabs["tab1"].request.tracks) + Len(tabs["tab1"].request.genres) = 2
    /\ Range(tabs["tab1"].response.stack.episodesUsed)
          = Range(tabs["tab2"].response.stack.episodesUsed)

\* The index of the first entry of a list of episodes with a path
IndexOfPath(eps, path) ==
    CHOOSE k \in DOMAIN eps :
        /\ eps[k].path = path
        /\ \A m \in 1 .. (k - 1) : eps[m].path # path

\* C24: the answer of the route is the same for every order in which the
\* searches, the tracklist fetches and the Spotify lookups settle; in a stack
\* the tracks follow the order of episodesUsed, and within an episode the
\* order of its tracklist.
C24_OrderIndependentOfCompletion ==
    \A t \in Tabs :
        tabs[t].pc = "fetching"
        => \A outage \in Outages :
            LET response == POST(tabs[t].request, now, outage)
            IN /\ \A completion \in Completions :
                    POST(tabs[t].request, now,
                         [outage EXCEPT !.completion = completion]) = response
               /\ response.status = 200
                    => LET tracks == response.stack.tracks
                           episodesUsed == response.stack.episodesUsed
                       IN \A i, j \in DOMAIN tracks :
                            i < j
                            => \/ IndexOfPath(episodesUsed, tracks[i].episodePath)
                                    < IndexOfPath(episodesUsed, tracks[j].episodePath)
                               \/ /\ tracks[i].episodePath = tracks[j].episodePath
                                  /\ \E k, m \in DOMAIN NTSTracklist(tracks[i].episodePath) :
                                        /\ k < m
                                        /\ NTSTracklist(tracks[i].episodePath)[k].uid = tracks[i].uid
                                        /\ NTSTracklist(tracks[i].episodePath)[m].uid = tracks[j].uid

\* The route has answered a request of two seeds with a stack of tracks of
\* three episodes
C24_Witness ==
    \E t \in Tabs :
        /\ tabs[t].pc = "responded"
        /\ tabs[t].response.status = 200
        /\ Len(tabs[t].request.tracks) + Len(tabs[t].request.genres) = 2
        /\ Len(tabs[t].response.stack.episodesUsed) = 3
        /\ Cardinality({tabs[t].response.stack.tracks[i].episodePath :
                            i \in DOMAIN tabs[t].response.stack.tracks}) = 3

\* The paths of a list of episodes or of results
PathsOf(eps) == [i \in DOMAIN eps |-> eps[i].path]

\* The first MaxPerSeed unseen results, newest first, as paths
NewestUnseen(results, seen) ==
    LET unseen == SelectSeq(SortByDateDesc(results),
                            LAMBDA r : r.article.path \notin seen)
        first == Slice(unseen, MaxPerSeed)
    IN [i \in DOMAIN first |-> first[i].article.path]

\* C23: every seed of a request, track or genre, contributes the first 5 of
\* the results of its search sorted by date, newest first, without the seen
\* episodes.
C23_NewestFirstPerSeed ==
    \A t \in Tabs :
        tabs[t].pc = "fetching"
        => LET body == tabs[t].request
           IN /\ \A i \in DOMAIN body.tracks :
                    LET contributed ==
                            fetchEpisodesForTrack(body.tracks[i].artist,
                                                  body.tracks[i].title,
                                                  body.seenEpisodes)
                    IN /\ Len(contributed) <= MaxPerSeed
                       /\ PathsOf(contributed)
                            = NewestUnseen(NTSTrackResults(body.tracks[i].artist,
                                                           body.tracks[i].title),
                                           body.seenEpisodes)
              /\ \A i \in DOMAIN body.genres :
                    LET contributed ==
                            fetchEpisodesForGenre(body.genres[i], body.seenEpisodes)
                    IN /\ Len(contributed) <= MaxPerSeed
                       /\ Range(PathsOf(contributed))
                            = Range(NewestUnseen(NTSGenreResults(body.genres[i]),
                                                 body.seenEpisodes))

\* The calls of a kind among a set of calls
OfKind(calls, kind) == {call \in calls : call.kind = kind}

\* C25: no tracklist fetch is started while a search has not settled; no
\* Spotify lookup is started while a search, a tracklist fetch or the token
\* request has not settled; the lookups started are those of the tracks left
\* by the filter on referencedTracks, which are the tracks of the stack.
C25_StageOrdering ==
    \A t \in Tabs :
        LET route == tabs[t].route
            body == tabs[t].request
        IN /\ OfKind(route.started, "tracklist") # {}
                => OfKind(route.pending, "search") = {}
           /\ OfKind(route.started, "lookup") # {}
                => /\ OfKind(route.pending, "search") = {}
                   /\ OfKind(route.pending, "tracklist") = {}
                   /\ OfKind(route.pending, "token") = {}
           /\ \A call \in OfKind(route.started, "lookup") :
                call.key \notin body.referencedTracks
           /\ (tabs[t].pc = "responded" /\ tabs[t].response.status = 200)
                => /\ {call.index : call \in OfKind(route.started, "lookup")}
                        = DOMAIN tabs[t].response.stack.tracks
                   /\ \A call \in OfKind(route.started, "lookup") :
                        tabs[t].response.stack.tracks[call.index].uid = call.key

\* The route has answered with a stack after tracklist fetches and lookups,
\* one track of a fetched tracklist having been discarded as referenced
C25_Witness ==
    \E t \in Tabs :
        /\ tabs[t].pc = "responded"
        /\ tabs[t].response.status = 200
        /\ Cardinality(OfKind(tabs[t].route.started, "tracklist")) >= 2
        /\ Cardinality(OfKind(tabs[t].route.started, "lookup")) >= 2
        /\ tabs[t].request.referencedTracks # {}

\* C26: immediately after a built stack is committed, the path of every
\* episode of its episodesUsed is in seenEpisodes.
C26_CommitMarksContainersSeen ==
    (lastOp.op = "commit" /\ stackHistory # <<>>)
        => \A i \in DOMAIN stackHistory[1].episodesUsed :
                stackHistory[1].episodesUsed[i].path \in seenEpisodes

\* The paths of the episodes that own a track of the stack
OwningEpisodes(stack) == {stack.tracks[i].episodePath : i \in DOMAIN stack.tracks}

\* C27: in every built stack, episodesUsed lists exactly the episodes that
\* own at least one track of the stack.
C27_EpisodesUsedOwnTracks ==
    \A t \in Tabs :
        (tabs[t].pc = "responded" /\ tabs[t].response.status = 200)
            => Range(PathsOf(tabs[t].response.stack.episodesUsed))
                    = OwningEpisodes(tabs[t].response.stack)

\* C28: the commit of a built stack whose tracks were referenced by another
\* commit since its request read the store saves the stack as it was built,
\* in front of the stacks already in history: neither the store nor the
\* build removes a track another stack holds.
C28_DoubleSurfacingNotPrevented ==
    [][ \A t \in Tabs :
          (/\ tabs[t].pc = "responded" /\ tabs[t].response.status = 200
           /\ lastOp'.op = "commit" /\ lastOp'.tab = t
           /\ Range(TrackUidsOf(tabs[t].response.stack)) \cap referencedTracks # {})
          => /\ stackHistory' = <<tabs[t].response.stack>> \o stackHistory
             /\ Range(TrackUidsOf(tabs[t].response.stack))
                    \cap KeysOf(stackHistory) # {}
                  => \E i, j \in DOMAIN stackHistory' :
                        /\ i # j
                        /\ Range(TrackUidsOf(stackHistory'[i]))
                             \cap Range(TrackUidsOf(stackHistory'[j])) # {} ]_vars

\* Two builds that read the same snapshot of the store have both
\* been committed, and their stacks share a track uid
C28_Witness ==
    /\ lastOp.op = "commit"
    /\ Len(stackHistory) = 2
    /\ Range(TrackUidsOf(stackHistory[1])) \cap Range(TrackUidsOf(stackHistory[2])) # {}

\* C29: the write of the history that ends a deleteStack keeps every stack
\* that is in stackHistory at that moment, other than the deleted one: a stack
\* committed since deleteStack read the history is not lost.
C29_NoLostUpdate ==
    [][ lastOp'.op = "deleteStack:stackHistory"
          => \A i \in DOMAIN stackHistory :
                stackHistory[i].id # del.stackId
                    => \E j \in DOMAIN stackHistory' :
                            stackHistory'[j] = stackHistory[i] ]_vars

\* C30: deleteStack of an id present in stackHistory removes one stack: the
\* history is one shorter, and the uids that leave referencedTracks are uids
\* of the stack found for the id.
C30_DeleteRemovesOne ==
    [][ (lastOp'.op = "deleteStack" /\ lastOp'.found)
          => /\ Len(stackHistory') = Len(stackHistory) - 1
             /\ IsSubsequence(stackHistory', stackHistory)
             /\ referencedTracks \ referencedTracks'
                    \subseteq lastOp'.deletedTrackUids ]_vars

====
